---- MODULE Spec2Model ----
(***************************************************************************)
(* A model of ol/format/IGC (src/src/ol/format/IGC.js): the decoder of IGC *)
(* flight-recorder logs.                                                   *)
(*                                                                         *)
(* Representation of JavaScript values:                                    *)
(*  - a JavaScript string is a TLA+ string; its characters are the         *)
(*    one-character strings SubSeq(s, k, k);                               *)
(*  - an angle in degrees, DD + mmmmm / 60000, is the integer number of    *)
(*    1/60000 degrees, DD * 60000 + mmmmm (the value times 60000);         *)
(*  - a time value in milliseconds since the epoch, which exceeds 32 bits, *)
(*    is the record [day |-> d, ms |-> r] standing for                     *)
(*    d * 86400000 + r with 0 <= r < 86400000; a time in seconds is        *)
(*    [day |-> d, sec |-> r] standing for d * 86400 + r.                   *)
(***************************************************************************)
EXTENDS Integers, Sequences, FiniteSets, TLC

VARIABLES
  altitudeMode_,    \* this.altitudeMode_ of the IGC instance
  pc,               \* "idle", "loop" (inside readFeatureFromText) or "done"
  op,               \* the method being executed
  lines,            \* text.split(NEWLINE_RE)
  i,                \* loop index (0-based)
  properties,       \* key -> trimmed value
  flatCoordinates,  \* the flat coordinate buffer
  year, month, day, \* the date context
  lastDateTime,     \* time value (ms) of the previous fix, initially -1
  result            \* outcome of the finished call

vars == <<altitudeMode_, pc, op, lines, i, properties, flatCoordinates,
          year, month, day, lastDateTime, result>>

-----------------------------------------------------------------------------
(* Bounds of the model. *)

\* Maximum number of lines of a document handed to a read operation.
MaxLines == 3

-----------------------------------------------------------------------------
(* JavaScript strings. *)

\* s.charAt(k) with k 0-based: the empty string when out of range.
charAt(s, k) == IF k >= 0 /\ k < Len(s) THEN SubSeq(s, k + 1, k + 1) ELSE ""

\* s.substring(a, b) with 0-based a inclusive and b exclusive.
substring(s, a, b) == SubSeq(s, a + 1, b)

\* The characters a regular expression's \d matches.
Digits == {"0", "1", "2", "3", "4", "5", "6", "7", "8", "9"}

\* The characters [A-Z] matches.
UpperCase == {"A", "B", "C", "D", "E", "F", "G", "H", "I", "J", "K", "L", "M",
              "N", "O", "P", "Q", "R", "S", "T", "U", "V", "W", "X", "Y", "Z"}

\* The ECMAScript line terminators a string of the model can hold (U+0000 to
\* U+007F), which "." does not match; U+2028 and U+2029 are the other two.
LineTerminators == {"\n", "\r"}

\* U+000B, written as the character itself.
VerticalTab == ""

\* The characters String.prototype.trim removes, among those a string of the
\* model can hold (U+0000 to U+007F): the white space and line terminators
\* of that range. trim also removes U+00A0, U+1680, U+2000 to U+200A,
\* U+2028, U+2029, U+202F, U+205F, U+3000 and U+FEFF, which no string of
\* the model holds.
TrimChars == {" ", "\t", "\f", VerticalTab} \cup LineTerminators

\* True iff s[a..b-1] (0-based, b exclusive) are all in the set cs.
AllIn(s, a, b, cs) == \A k \in a..(b - 1) : charAt(s, k) \in cs

DigitVal(c) ==
  CASE c = "0" -> 0 [] c = "1" -> 1 [] c = "2" -> 2 [] c = "3" -> 3
    [] c = "4" -> 4 [] c = "5" -> 5 [] c = "6" -> 6 [] c = "7" -> 7
    [] c = "8" -> 8 [] c = "9" -> 9

\* parseInt(s, 10) for a non-empty string of decimal digits.
RECURSIVE parseInt(_)
parseInt(s) ==
  IF Len(s) = 1 THEN DigitVal(s)
  ELSE 10 * parseInt(SubSeq(s, 1, Len(s) - 1)) + DigitVal(SubSeq(s, Len(s), Len(s)))

\* The least element of a non-empty set of integers.
Min(S) == CHOOSE x \in S : \A y \in S : x <= y

\* The greatest element of a non-empty set of integers.
Max(S) == CHOOSE x \in S : \A y \in S : x >= y

\* s.trim(): what lies between the first and the last character that is
\* not white space.
trim(s) ==
  LET keep == { k \in 0..(Len(s) - 1) : charAt(s, k) \notin TrimChars } IN
  IF keep = {} THEN "" ELSE substring(s, Min(keep), Max(keep) + 1)

\* The positions where NEWLINE_RE = /\r\n|\r|\n/ matches when text is
\* scanned from the left: every "\r", and every "\n" that no "\r" precedes.
NewlineStarts(text) ==
  { k \in 0..(Len(text) - 1) :
      \/ charAt(text, k) = "\r"
      \/ charAt(text, k) = "\n" /\ charAt(text, k - 1) # "\r" }

\* The pieces of text from position cur on, cut at the matches in starts.
RECURSIVE SplitFrom(_, _, _)
SplitFrom(text, cur, starts) ==
  IF starts = {} THEN <<substring(text, cur, Len(text))>>
  ELSE LET k == Min(starts)
           next == IF charAt(text, k) = "\r" /\ charAt(text, k + 1) = "\n"
                   THEN k + 2 ELSE k + 1
       IN <<substring(text, cur, k)>> \o SplitFrom(text, next, starts \ {k})

\* text.split(NEWLINE_RE)
split(text) == SplitFrom(text, 0, NewlineStarts(text))

-----------------------------------------------------------------------------
(* The record layouts. A failed exec is the empty tuple (JavaScript null);  *)
(* a successful one is the tuple of capture groups m[1], m[2], ...          *)

NoMatch == << >>

\* B_RECORD_RE with A alone where the validity letter is: void fixes do
\* not match.
B_RECORD_RE_ValidOnly(line) ==
  IF /\ Len(line) >= 35
     /\ charAt(line, 0) = "B"
     /\ AllIn(line, 1, 14, Digits)
     /\ charAt(line, 14) \in {"N", "S"}
     /\ AllIn(line, 15, 23, Digits)
     /\ charAt(line, 23) \in {"E", "W"}
     /\ charAt(line, 24) = "A"
     /\ AllIn(line, 25, 35, Digits)
  THEN << substring(line, 1, 3), substring(line, 3, 5), substring(line, 5, 7),
          substring(line, 7, 9), substring(line, 9, 14), substring(line, 14, 15),
          substring(line, 15, 18), substring(line, 18, 23), substring(line, 23, 24),
          substring(line, 24, 25), substring(line, 25, 30), substring(line, 30, 35) >>
  ELSE NoMatch

\* B_RECORD_RE with "." where the hemisphere letters are: any character is
\* taken for [NS] and [EW].
B_RECORD_RE_AnyHemisphere(line) ==
  IF /\ Len(line) >= 35
     /\ charAt(line, 0) = "B"
     /\ AllIn(line, 1, 14, Digits)
     /\ AllIn(line, 15, 23, Digits)
     /\ charAt(line, 24) \in {"A", "V"}
     /\ AllIn(line, 25, 35, Digits)
  THEN << substring(line, 1, 3), substring(line, 3, 5), substring(line, 5, 7),
          substring(line, 7, 9), substring(line, 9, 14), substring(line, 14, 15),
          substring(line, 15, 18), substring(line, 18, 23), substring(line, 23, 24),
          substring(line, 24, 25), substring(line, 25, 30), substring(line, 30, 35) >>
  ELSE NoMatch

\* B_RECORD_RE.exec(line): anchored at the start only.
B_RECORD_RE(line) ==
  IF /\ Len(line) >= 35
     /\ charAt(line, 0) = "B"
     /\ AllIn(line, 1, 14, Digits)
     /\ charAt(line, 14) \in {"N", "S"}
     /\ AllIn(line, 15, 23, Digits)
     /\ charAt(line, 23) \in {"E", "W"}
     /\ charAt(line, 24) \in {"A", "V"}
     /\ AllIn(line, 25, 35, Digits)
  THEN << substring(line, 1, 3), substring(line, 3, 5), substring(line, 5, 7),
          substring(line, 7, 9), substring(line, 9, 14), substring(line, 14, 15),
          substring(line, 15, 18), substring(line, 18, 23), substring(line, 23, 24),
          substring(line, 24, 25), substring(line, 25, 30), substring(line, 30, 35) >>
  ELSE NoMatch

\* HFDTE_RECORD_RE.exec(line)
HFDTE_RECORD_RE(line) ==
  IF /\ Len(line) >= 11
     /\ substring(line, 0, 5) = "HFDTE"
     /\ AllIn(line, 5, 11, Digits)
  THEN << substring(line, 5, 7), substring(line, 7, 9), substring(line, 9, 11) >>
  ELSE NoMatch

\* The length of the longest run of characters "." matches from position k.
DotRun(s, k) ==
  Min({ j \in k..(Len(s) - 1) : charAt(s, j) \in LineTerminators } \cup {Len(s)}) - k

\* The position of the first ":" at or after k, or Len(s) if there is none.
FirstColon(s, k) ==
  Min({ j \in k..(Len(s) - 1) : charAt(s, j) = ":" } \cup {Len(s)})

\* H_RECORD_RE.exec(line) with H_RECORD_RE = /^H.([A-Z]{3}).*?:(.*)/ : the
\* lazy .*? stops at the first colon from position 5 on, which the dots
\* must reach; the greedy (.*) takes what dots match after it.
H_RECORD_RE(line) ==
  LET c == FirstColon(line, 5) IN
  IF /\ Len(line) >= 6
     /\ charAt(line, 0) = "H"
     /\ charAt(line, 1) \notin LineTerminators
     /\ AllIn(line, 2, 5, UpperCase)
     /\ c < Len(line)
     /\ DotRun(line, 5) >= c - 5
  THEN << substring(line, 2, 5), substring(line, c + 1, c + 1 + DotRun(line, c + 1)) >>
  ELSE NoMatch

-----------------------------------------------------------------------------
(* Date.UTC, after ECMAScript's MakeDay, MakeTime and MakeDate.             *)

\* Milliseconds per day.
msPerDay == 86400000

\* The day number of 1 January of year y (ECMAScript DayFromYear).
DayFromYear(y) ==
  365 * (y - 1970) + ((y - 1969) \div 4) - ((y - 1901) \div 100) + ((y - 1601) \div 400)

InLeapYear(y) == (y % 4 = 0) /\ ((y % 100 # 0) \/ (y % 400 = 0))

\* Days from 1 January to the first of month mn (0-based) of year y.
DaysBeforeMonth(y, mn) ==
  LET cum == <<0, 31, 59, 90, 120, 151, 181, 212, 243, 273, 304, 334>> IN
  cum[mn + 1] + (IF mn >= 2 /\ InLeapYear(y) THEN 1 ELSE 0)

\* MakeDay(year, month, date): month and date overflow normalise.
MakeDay(y, m, dt) ==
  LET ym == y + (m \div 12)
      mn == m % 12
  IN DayFromYear(ym) + DaysBeforeMonth(ym, mn) + dt - 1

\* MakeTime(hour, min, sec, 0) in milliseconds.
MakeTime(h, mi, s) == h * 3600000 + mi * 60000 + s * 1000

\* Date.UTC(y, m, dt, h, mi, s) for y >= 100: MakeDate(MakeDay, MakeTime).
DateUTC(y, m, dt, h, mi, s) ==
  LET t == MakeTime(h, mi, s) IN
  [day |-> MakeDay(y, m, dt) + (t \div msPerDay), ms |-> t % msPerDay]

\* a < b for time values in milliseconds.
TimeLess(a, b) == a.day < b.day \/ (a.day = b.day /\ a.ms < b.ms)

\* dateTime / 1000: a time value in seconds (the ms part is always a whole
\* number of seconds here, because MakeTime is given whole seconds).
Div1000(t) == [day |-> t.day, sec |-> t.ms \div 1000]

\* lastDateTime starting at the first instant of the default date context.
InitialLastDateTimeEpoch2000 == [day |-> 10957, ms |-> 0]

\* The initial value of lastDateTime, -1 ms.
InitialLastDateTime == [day |-> -1, ms |-> msPerDay - 1]

-----------------------------------------------------------------------------
(* The decoder instance and its operations.                                 *)

\* IGCZ
IGCZ == [BAROMETRIC |-> "barometric", GPS |-> "gps", NONE |-> "none"]

\* GeometryLayout values used by the decoder, with their strides.
GeometryLayout == [XYM |-> "XYM", XYZM |-> "XYZM"]

\* The options a decoder may be constructed with: none, or an altitudeMode
\* that is the empty string (falsy), a recognised mode or another string.
OptionsSet ==
  { << >> } \cup { [altitudeMode |-> a] : a \in {"", "none", "gps", "barometric", "other"} }

\* constructor: options.altitudeMode ? options.altitudeMode : IGCZ.NONE
Constructor(options) ==
  IF "altitudeMode" \in DOMAIN options /\ options["altitudeMode"] # ""
  THEN options["altitudeMode"]
  ELSE IGCZ.NONE

\* DecodeY without the negation for the southern hemisphere.
DecodeYUnsigned(m) == parseInt(m[4]) * 60000 + parseInt(m[5])

\* y = parseInt(m[4]) + parseInt(m[5]) / 60000, negated for "S" (times 60000).
DecodeY(m) ==
  LET y == parseInt(m[4]) * 60000 + parseInt(m[5]) IN
  IF m[6] = "S" THEN -y ELSE y

\* x = parseInt(m[7]) + parseInt(m[8]) / 60000, negated for "W" (times 60000).
DecodeX(m) ==
  LET x == parseInt(m[7]) * 60000 + parseInt(m[8]) IN
  IF m[9] = "W" THEN -x ELSE x

\* DecodeZ reading the pressure altitude under every mode that is not GPS.
DecodeZDefaultBarometric(altitudeMode, m) ==
  IF altitudeMode = IGCZ.GPS THEN parseInt(m[11]) ELSE parseInt(m[12])

\* DecodeZ with the two altitude fields exchanged.
DecodeZSwapped(altitudeMode, m) ==
  IF altitudeMode = IGCZ.GPS THEN parseInt(m[12])
  ELSE IF altitudeMode = IGCZ.BAROMETRIC THEN parseInt(m[11])
  ELSE 0

\* The components pushed after x and y when the mode is not NONE.
DecodeZ(altitudeMode, m) ==
  IF altitudeMode = IGCZ.GPS THEN parseInt(m[11])
  ELSE IF altitudeMode = IGCZ.BAROMETRIC THEN parseInt(m[12])
  ELSE 0

\* The time value of a fix: Date.UTC of the date context, or of the next day
\* when that is before lastDateTime.
FixDateTime(y, mo, d, last, m) ==
  LET hour == parseInt(m[1])
      minute == parseInt(m[2])
      second == parseInt(m[3])
      dateTime == DateUTC(y, mo, d, hour, minute, second)
  IN IF TimeLess(dateTime, last)
     THEN DateUTC(y, mo, d + 1, hour, minute, second)
     ELSE dateTime

\* FixComponents pushing latitude before longitude.
FixComponentsYX(altitudeMode, m, dateTime) ==
  <<DecodeY(m), DecodeX(m)>>
    \o (IF altitudeMode # IGCZ.NONE THEN <<DecodeZ(altitudeMode, m)>> ELSE << >>)
    \o <<Div1000(dateTime)>>

\* FixComponents pushing z under the modes GPS and BAROMETRIC only.
FixComponentsKnownModes(altitudeMode, m, dateTime) ==
  <<DecodeX(m), DecodeY(m)>>
    \o (IF altitudeMode \in {IGCZ.GPS, IGCZ.BAROMETRIC}
        THEN <<DecodeZ(altitudeMode, m)>> ELSE << >>)
    \o <<Div1000(dateTime)>>

\* The components one accepted fix appends to flatCoordinates.
FixComponents(altitudeMode, m, dateTime) ==
  <<DecodeX(m), DecodeY(m)>>
    \o (IF altitudeMode # IGCZ.NONE THEN <<DecodeZ(altitudeMode, m)>> ELSE << >>)
    \o <<Div1000(dateTime)>>

\* SetProperty keeping the value a key already has.
SetPropertyKeepFirst(props, key, value) == props @@ (key :> value)

\* properties[key] = value
SetProperty(props, key, value) == (key :> value) @@ props

\* The layout the track is tagged with.
LayoutOf(altitudeMode) ==
  IF altitudeMode = IGCZ.NONE THEN GeometryLayout.XYM ELSE GeometryLayout.XYZM

Null == [null |-> TRUE]
Undefined == [undefined |-> TRUE]
NoProperties == << >>

ReadOps == {"readFeatureFromText", "readFeaturesFromText"}
UnsupportedOps ==
  {"writeFeatureText", "writeFeaturesText", "writeGeometryText", "readGeometryFromText"}

Init ==
  /\ \E options \in OptionsSet : altitudeMode_ = Constructor(options)
  /\ pc = "idle"
  /\ op = "none"
  /\ lines = << >>
  /\ i = 0
  /\ properties = NoProperties
  /\ flatCoordinates = << >>
  /\ year = 0
  /\ month = 0
  /\ day = 0
  /\ lastDateTime = InitialLastDateTime
  /\ result = Undefined

\* CallRead with the date context and lastDateTime kept from before the call,
\* as fields of the instance would be.
CallReadKeepingContext(Texts) ==
  /\ pc = "idle"
  /\ \E o \in {"readFeatureFromText", "readFeaturesFromText"}, text \in Texts :
       /\ op' = o
       /\ lines' = split(text)
  /\ pc' = "loop"
  /\ i' = 0
  /\ properties' = << >>
  /\ flatCoordinates' = << >>
  /\ result' = [undefined |-> TRUE]
  /\ UNCHANGED <<altitudeMode_, year, month, day, lastDateTime>>

\* readFeatureFromText, lines 94-103, called directly or through
\* readFeaturesFromText (line 169).
CallRead(Texts) ==
  /\ pc = "idle"
  /\ \E o \in ReadOps, text \in Texts :
       /\ op' = o
       /\ lines' = split(text)
  /\ pc' = "loop"
  /\ i' = 0
  /\ properties' = NoProperties
  /\ flatCoordinates' = << >>
  /\ year' = 2000
  /\ month' = 0
  /\ day' = 1
  /\ lastDateTime' = InitialLastDateTime
  /\ result' = Undefined
  /\ UNCHANGED altitudeMode_

\* The line the loop is at.
CurrentLine == lines[i + 1]

\* FixStep advancing the day of the date context when the rollover branch
\* is taken.
FixStepAdvancingDay ==
  /\ pc = "loop" /\ i < Len(lines)
  /\ charAt(lines[i + 1], 0) = "B"
  /\ LET m == B_RECORD_RE(lines[i + 1]) IN
       /\ m # NoMatch
       /\ LET dateTime == FixDateTime(year, month, day, lastDateTime, m) IN
            /\ flatCoordinates' =
                 flatCoordinates \o FixComponents(altitudeMode_, m, dateTime)
            /\ lastDateTime' = dateTime
            /\ day' = IF TimeLess(DateUTC(year, month, day, parseInt(m[1]),
                                          parseInt(m[2]), parseInt(m[3])), lastDateTime)
                      THEN day + 1 ELSE day
  /\ i' = i + 1
  /\ UNCHANGED <<altitudeMode_, pc, op, lines, properties, year, month, result>>

\* Lines 107-140, a matching B line.
FixStep ==
  /\ pc = "loop" /\ i < Len(lines)
  /\ charAt(CurrentLine, 0) = "B"
  /\ \E m \in {B_RECORD_RE(CurrentLine)} :
       /\ m # NoMatch
       /\ \E dateTime \in {FixDateTime(year, month, day, lastDateTime, m)} :
            /\ flatCoordinates' =
                 flatCoordinates \o FixComponents(altitudeMode_, m, dateTime)
            /\ lastDateTime' = dateTime
  /\ i' = i + 1
  /\ UNCHANGED <<altitudeMode_, pc, op, lines, properties, year, month, day, result>>

\* DateHeaderStep falling through to the generic header path.
DateHeaderStepThenGeneric ==
  /\ pc = "loop" /\ i < Len(lines)
  /\ charAt(lines[i + 1], 0) # "B" /\ charAt(lines[i + 1], 0) = "H"
  /\ LET m == HFDTE_RECORD_RE(lines[i + 1])
         h == H_RECORD_RE(lines[i + 1])
     IN
       /\ m # NoMatch
       /\ day' = parseInt(m[1])
       /\ month' = parseInt(m[2]) - 1
       /\ year' = 2000 + parseInt(m[3])
       /\ properties' = IF h # NoMatch THEN (h[1] :> trim(h[2])) @@ properties
                        ELSE properties
  /\ i' = i + 1
  /\ UNCHANGED <<altitudeMode_, pc, op, lines, flatCoordinates, lastDateTime, result>>

\* Lines 141-146, a matching date header.
DateHeaderStep ==
  /\ pc = "loop" /\ i < Len(lines)
  /\ charAt(CurrentLine, 0) # "B" /\ charAt(CurrentLine, 0) = "H"
  /\ \E m \in {HFDTE_RECORD_RE(CurrentLine)} :
       /\ m # NoMatch
       /\ day' = parseInt(m[1])
       /\ month' = parseInt(m[2]) - 1
       /\ year' = 2000 + parseInt(m[3])
  /\ i' = i + 1
  /\ UNCHANGED <<altitudeMode_, pc, op, lines, properties, flatCoordinates,
                 lastDateTime, result>>

\* Lines 147-152, a generic header.
HeaderStep ==
  /\ pc = "loop" /\ i < Len(lines)
  /\ charAt(CurrentLine, 0) # "B" /\ charAt(CurrentLine, 0) = "H"
  /\ HFDTE_RECORD_RE(CurrentLine) = NoMatch
  /\ \E m \in {H_RECORD_RE(CurrentLine)} :
       /\ m # NoMatch
       /\ properties' = SetProperty(properties, m[1], trim(m[2]))
  /\ i' = i + 1
  /\ UNCHANGED <<altitudeMode_, pc, op, lines, flatCoordinates, year, month, day,
                 lastDateTime, result>>

\* True iff the loop body does nothing for the line.
Skipped(line) ==
  IF charAt(line, 0) = "B" THEN B_RECORD_RE(line) = NoMatch
  ELSE IF charAt(line, 0) = "H"
    THEN HFDTE_RECORD_RE(line) = NoMatch /\ H_RECORD_RE(line) = NoMatch
  ELSE TRUE

\* SkipStep without the test of the fix match: reading m[1] of a failed
\* match throws.
SkipStepUnguarded ==
  /\ pc = "loop" /\ i < Len(lines)
  /\ Skipped(lines[i + 1])
  /\ IF charAt(lines[i + 1], 0) = "B"
     THEN /\ pc' = "done"
          /\ result' = [kind |-> "throw", value |-> "TypeError"]
          /\ i' = i
     ELSE /\ i' = i + 1
          /\ UNCHANGED <<pc, result>>
  /\ UNCHANGED <<altitudeMode_, op, lines, properties, flatCoordinates,
                 year, month, day, lastDateTime>>

\* SkipStep without the increment of the loop.
SkipStepNoAdvance ==
  /\ pc = "loop" /\ i < Len(lines)
  /\ Skipped(CurrentLine)
  /\ i' = i
  /\ UNCHANGED <<altitudeMode_, pc, op, lines, properties, flatCoordinates,
                 year, month, day, lastDateTime, result>>

\* A line for which no branch of the loop body does anything.
SkipStep ==
  /\ pc = "loop" /\ i < Len(lines)
  /\ Skipped(CurrentLine)
  /\ i' = i + 1
  /\ UNCHANGED <<altitudeMode_, pc, op, lines, properties, flatCoordinates,
                 year, month, day, lastDateTime, result>>

\* Lines 155-162: null, or the feature built from the buffer and properties.
FeatureOf(altitudeMode, flat, props) ==
  IF Len(flat) = 0 THEN Null
  ELSE [geometry |-> [flatCoordinates |-> flat, layout |-> LayoutOf(altitudeMode)],
        properties |-> props]

\* FeaturesOf without the test of the feature.
FeaturesOfUnchecked(feature) == <<feature>>

\* Lines 168-175: the feature in a list, or the empty list.
FeaturesOf(feature) == IF feature # Null THEN <<feature>> ELSE << >>

\* The end of the loop and the return of the read operation.
ReturnStep ==
  /\ pc = "loop" /\ i = Len(lines)
  /\ LET feature == FeatureOf(altitudeMode_, flatCoordinates, properties) IN
       result' = [kind |-> "return",
                  value |-> IF op = "readFeaturesFromText"
                            THEN FeaturesOf(feature) ELSE feature]
  /\ pc' = "done"
  /\ UNCHANGED <<altitudeMode_, op, lines, i, properties, flatCoordinates,
                 year, month, day, lastDateTime>>

\* Lines 177-199: the methods with empty bodies return undefined.
UnsupportedOutcome(o) == [kind |-> "return", value |-> Undefined]

CallUnsupported ==
  /\ pc = "idle"
  /\ \E o \in UnsupportedOps :
       /\ op' = o
       /\ result' = UnsupportedOutcome(o)
  /\ pc' = "done"
  /\ UNCHANGED <<altitudeMode_, lines, i, properties, flatCoordinates,
                 year, month, day, lastDateTime>>

\* The caller takes the result; the locals of the call are gone.
Finish ==
  /\ pc = "done"
  /\ pc' = "idle"
  /\ op' = "none"
  /\ lines' = << >>
  /\ i' = 0
  /\ properties' = NoProperties
  /\ flatCoordinates' = << >>
  /\ year' = 0
  /\ month' = 0
  /\ day' = 0
  /\ lastDateTime' = InitialLastDateTime
  /\ result' = Undefined
  /\ UNCHANGED altitudeMode_

-----------------------------------------------------------------------------
(* The documents the read operations are called with.                       *)

\* The newline sequences NEWLINE_RE recognises.
Newlines == {"\n", "\r\n", "\r"}

\* The lines of d joined by the newline nl.
RECURSIVE Join(_, _)
Join(d, nl) ==
  IF Len(d) = 0 THEN ""
  ELSE IF Len(d) = 1 THEN d[1]
  ELSE d[1] \o nl \o Join(Tail(d), nl)

\* Every document of at most n lines drawn from L, under every newline.
Texts(L, n) ==
  { Join(d, nl) : d \in UNION { [1..k -> L] : k \in 0..n }, nl \in Newlines }

\* Fixes, well-formed and malformed, with a header of either kind.
FixLines ==
  { "B1011105000000N00100000EA0012300089",       \* the fix of the spec's example
    "B2359589999999S99999999WV9999900000",       \* every field at its maximum
    "B0000020000000N00000000EA0000100002EXT01",  \* longer than the layout
    "B1011105000000N00100000EA001230008",        \* one character short
    "B10111050000X0N00100000EA0012300089",       \* a non-digit in a digit field
    "B1011105000000X00100000EA0012300089",       \* a hemisphere letter not N or S
    "HFDTE230820",
    "HFPLTPILOTINCHARGE:John Doe" }

\* Headers of every kind, with a fix and a blank line.
HeaderLines ==
  { "HFDTE230820",
    "HFDTE010121 DATE:2021",                     \* a date header with a colon
    "HFDTE:no digits",                           \* not a date header
    "HFPLTPILOTINCHARGE: " \o VerticalTab \o "John Doe\t",
    "HOPLTPILOT::Jane ",                         \* the same key, two colons
    "HFpltPILOT:x",                              \* key not upper case
    "B1011105000000N00100000EA0012300089",
    "" }

\* Fixes at several times of day, with date headers.
TimeLines ==
  { "B2359595000000N00100000EA0012300089",
    "B2359585000000N00100000EA0012300089",
    "B1200005000000N00100000EA0012300089",
    "B0000025000000N00100000EA0012300089",
    "HFDTE230820",
    "HFDTE311299",
    "HFDTE000000",
    "HFPLTPILOTINCHARGE:John Doe",
    "XGARBAGE" }

\* Lines the loop body does nothing for, with one line of every other kind.
SkipLines ==
  { "XGARBAGE",
    "",
    "B",
    "B1011105000000N00100000eA0012300089",       \* a hemisphere letter not E or W
    "HFPLTPILOT",                                \* no colon
    "B2359585000000N00100000EA0012300089",
    "HFDTE230820",
    "HFPLTPILOTINCHARGE:John Doe" }

\* Fix lines over the extreme and the ordinary values of the angle fields.
CoordLines ==
  { "B101110" \o dd \o mm \o ns \o ddd \o mmm \o ew \o "A0012300089" :
      dd \in {"00", "45", "89", "90", "99"},
      mm \in {"00000", "00001", "59999", "60000", "99999"},
      ns \in {"N", "S"},
      ddd \in {"000", "179", "180", "999"},
      mmm \in {"00000", "00001", "59999", "60000", "99999"},
      ew \in {"E", "W"} }

\* One line of every kind but the fix.
OtherLines == { "HFDTE230820", "HFPLTPILOTINCHARGE:John Doe", "XGARBAGE" }

FixTexts == Texts(FixLines, MaxLines)
HeaderTexts == Texts(HeaderLines, MaxLines)
TimeTexts == Texts(TimeLines, MaxLines)
SkipTexts == Texts(SkipLines, MaxLines)
CoordTexts == CoordLines \cup Texts(OtherLines, MaxLines)

\* The steps of a read operation in progress.
ReadSteps == FixStep \/ DateHeaderStep \/ HeaderStep \/ SkipStep \/ ReturnStep

Next == CallRead(FixTexts) \/ ReadSteps \/ CallUnsupported \/ Finish
Spec == Init /\ [][Next]_vars

NextHeader == CallRead(HeaderTexts) \/ ReadSteps \/ CallUnsupported \/ Finish
SpecHeader == Init /\ [][NextHeader]_vars

NextTime == CallRead(TimeTexts) \/ ReadSteps \/ CallUnsupported \/ Finish
SpecTime == Init /\ [][NextTime]_vars

NextSkip == CallRead(SkipTexts) \/ ReadSteps \/ CallUnsupported \/ Finish
SpecSkip == Init /\ [][NextSkip]_vars

NextCoord == CallRead(CoordTexts) \/ ReadSteps \/ CallUnsupported \/ Finish
SpecCoord == Init /\ [][NextCoord]_vars

\* Fixes that differ in validity, altitudes and position, with one line of
\* every other kind.
\* Date headers over the extremes of DD, MM and YY, each followed by fixes
\* over the extremes of the time of day.
SentinelHeaders ==
  { "HFDTE" \o dd \o mm \o yy :
      dd \in {"00", "01", "31", "99"}, mm \in {"00", "01", "12", "99"},
      yy \in {"00", "37", "99"} }

SentinelFixes ==
  { "B0000005000000N00100000EA0012300089",
    "B2359595000000N00100000EA0012300089",
    "B9999995000000N00100000EA0012300089" }

SentinelTexts ==
  { h \o "\n" \o t : h \in SentinelHeaders, t \in Texts(SentinelFixes, MaxLines - 1) }
    \cup Texts(SentinelFixes \cup {"HFPLTPILOTINCHARGE:John Doe", "XGARBAGE"}, MaxLines - 1)

NextSentinel == CallRead(SentinelTexts) \/ ReadSteps \/ CallUnsupported \/ Finish
SpecSentinel == Init /\ [][NextSentinel]_vars

\* One line of each kind; a call, once entered, runs to its return, so the
\* steps of a read operation are taken whenever one is possible.
LiveLines ==
  { "B1011105000000N00100000EA0012300089", "HFDTE230820",
    "HFPLTPILOTINCHARGE:John Doe", "XGARBAGE" }

LiveTexts == Texts(LiveLines, MaxLines)

NextLive == CallRead(LiveTexts) \/ ReadSteps \/ CallUnsupported \/ Finish
SpecLive == Init /\ [][NextLive]_vars /\ WF_vars(ReadSteps)

TrackLines ==
  { "B1011105000000N00100000EA0012300089",
    "B1011105000000N00100000EV0012300089",       \* the same fix, void
    "B2359584530000S17959999WV0450004321",
    "HFDTE230820",
    "HFPLTPILOTINCHARGE:John Doe",
    "XGARBAGE" }

TrackTexts == Texts(TrackLines, MaxLines)

NextTrack == CallRead(TrackTexts) \/ ReadSteps \/ CallUnsupported \/ Finish
SpecTrack == Init /\ [][NextTrack]_vars

-----------------------------------------------------------------------------
(* Vocabulary of the properties: the track read off the state, and the      *)
(* record layouts as the specification words them.                          *)

\* Components per point: 3 when the altitude mode is NONE, 4 otherwise.
Stride == IF altitudeMode_ = "none" THEN 3 ELSE 4

\* Components per point of a geometry layout.
LayoutStride(layout) == IF layout = "XYM" THEN 3 ELSE IF layout = "XYZM" THEN 4 ELSE 0

NumPoints == Len(flatCoordinates) \div Stride
PointX(p) == flatCoordinates[(p - 1) * Stride + 1]
PointY(p) == flatCoordinates[(p - 1) * Stride + 2]
PointT(p) == flatCoordinates[p * Stride]

\* a < b for times in seconds.
SecLess(a, b) == a.day < b.day \/ (a.day = b.day /\ a.sec < b.sec)

\* The character classes of the 35 columns of a fix line.
FixColumns ==
  <<{"B"}>> \o [k \in 1..13 |-> Digits] \o <<{"N", "S"}>> \o [k \in 1..8 |-> Digits]
    \o <<{"E", "W"}, {"A", "V"}>> \o [k \in 1..10 |-> Digits]

\* The first 35 characters of the line have the fix layout.
StartsWithFix(line) ==
  Len(line) >= 35 /\ \A k \in 1..35 : SubSeq(line, k, k) \in FixColumns[k]

\* The line is exactly the 35-character fix layout.
ExactlyFix(line) == Len(line) = 35 /\ StartsWithFix(line)

\* The line is a date header: HFDTE and six digits.
IsDateHeader(line) ==
  Len(line) >= 11 /\ SubSeq(line, 1, 5) = "HFDTE"
    /\ \A k \in 6..11 : SubSeq(line, k, k) \in Digits

\* The indices, among the lines processed so far, of the lines in S.
Processed(P(_)) == { j \in 1..i : P(lines[j]) }

\* A read operation is in progress or has just returned.
Reading == pc \in {"loop", "done"} /\ op \in ReadOps

\* The fix lines processed so far, in document order.
FixSeq == SelectSeq(SubSeq(lines, 1, i), StartsWithFix)

\* The time of day of a fix line, in seconds.
TimeOfDay(line) ==
  parseInt(SubSeq(line, 2, 3)) * 3600 + parseInt(SubSeq(line, 4, 5)) * 60
    + parseInt(SubSeq(line, 6, 7))

\* The latitude and longitude fields of a fix line, in 1/60000 degree.
LatField(line) == parseInt(SubSeq(line, 8, 9)) * 60000 + parseInt(SubSeq(line, 10, 14))
LonField(line) == parseInt(SubSeq(line, 16, 18)) * 60000 + parseInt(SubSeq(line, 19, 23))

\* The midnight crossings up to the p-th fix of f: the fixes whose time of
\* day is before that of the fix preceding them.
Wraps(f, p) == Cardinality({ q \in 2..p : TimeOfDay(f[q]) < TimeOfDay(f[q - 1]) })

\* No date header follows a fix among the lines processed so far.
OneDateContext ==
  \A j \in Processed(IsDateHeader), k \in Processed(StartsWithFix) : j < k

\* The feature a finished read operation returned (when it returned one).
ResultFeature == IF op = "readFeaturesFromText" THEN result.value[1] ELSE result.value

-----------------------------------------------------------------------------
(* The properties.                                                          *)

\* C1: in every document, under every altitude mode, the time components of
\* the points of the track are non-decreasing in sequence order.
C1_TimesNonDecreasing ==
  Reading => \A p \in 1..(NumPoints - 1) : ~SecLess(PointT(p + 1), PointT(p))

\* C2 as stated: every decoded latitude lies in [-90, 90] and every decoded
\* longitude in [-180, 180], whatever digits the layout admits.
C2_AnglesInRange ==
  Reading => \A p \in 1..NumPoints :
    /\ PointY(p) >= -(90 * 60000) /\ PointY(p) <= 90 * 60000
    /\ PointX(p) >= -(180 * 60000) /\ PointX(p) <= 180 * 60000

\* C2 amended: the decoded latitude is DD + mmmmm/60000 and the longitude
\* DDD + mmmmm/60000 of the line's fields, negative exactly for S and W; so
\* they lie in [-90, 90] and [-180, 180] when the fields denote at most 90
\* and 180 degrees, and in general only within 99 + 99999/60000 and
\* 999 + 99999/60000 degrees of zero.
C2_AnglesFollowFields ==
  Reading => \A p \in 1..NumPoints :
    LET line == FixSeq[p]
        south == SubSeq(line, 15, 15) = "S"
        west == SubSeq(line, 24, 24) = "W"
        y == PointY(p)
        x == PointX(p)
    IN /\ y = IF south THEN -LatField(line) ELSE LatField(line)
       /\ x = IF west THEN -LonField(line) ELSE LonField(line)
       /\ y >= -(99 * 60000 + 99999) /\ y <= 99 * 60000 + 99999
       /\ x >= -(999 * 60000 + 99999) /\ x <= 999 * 60000 + 99999
       /\ LatField(line) <= 90 * 60000 => (y >= -(90 * 60000) /\ y <= 90 * 60000)
       /\ LonField(line) <= 180 * 60000 => (x >= -(180 * 60000) /\ x <= 180 * 60000)

\* C2 witness: a southern, western fix beyond both ranges has been decoded.
C2_Witness ==
  /\ pc = "done" /\ NumPoints = 1
  /\ PointY(1) = -(99 * 60000 + 99999)
  /\ PointX(1) = -(999 * 60000 + 99999)

\* C3: each unsupported operation ends in a "not implemented" error
\* outcome; none returns normally.
C3_UnsupportedSignals ==
  (pc = "done" /\ op \in UnsupportedOps) =>
    (result.kind = "throw" /\ result.value = "not implemented")

\* C4: the buffer holds exactly Stride components per fix line processed, so
\* its length is a multiple of Stride after every prefix of the document, and
\* the layout of the returned track has that stride.
C4_StrideMultiple ==
  Reading =>
    /\ Len(flatCoordinates) = Stride * Cardinality(Processed(StartsWithFix))
    /\ Len(flatCoordinates) % Stride = 0
    /\ (pc = "done" /\ Len(flatCoordinates) > 0) =>
         /\ LayoutStride(ResultFeature.geometry.layout) = Stride
         /\ Len(ResultFeature.geometry.flatCoordinates) % Stride = 0

\* C4 witness: a track of two points was returned under a mode that is
\* neither NONE, GPS nor BAROMETRIC.
C4_Witness ==
  /\ pc = "done" /\ op = "readFeatureFromText"
  /\ altitudeMode_ = "other"
  /\ Len(flatCoordinates) = 8

\* C5: readFeaturesFromText returns the empty list exactly when no line of
\* the document has the fix layout, and a list of one feature otherwise.
C5_ZeroOrOneFeature ==
  (pc = "done" /\ op = "readFeaturesFromText") =>
    LET noFix == \A j \in 1..Len(lines) : ~StartsWithFix(lines[j]) IN
    /\ result.kind = "return"
    /\ Len(result.value) \in {0, 1}
    /\ (Len(result.value) = 0) <=> noFix
    /\ (Len(result.value) = 1) =>
         /\ "geometry" \in DOMAIN result.value[1]
         /\ result.value[1].properties = properties

\* C5 witness: a document of headers only returned the empty list, the
\* collected properties being discarded.
C5_Witness ==
  /\ pc = "done" /\ op = "readFeaturesFromText"
  /\ Len(result.value) = 0
  /\ DOMAIN properties # {}

\* C9: with one date context and no date header after it, a fix after the
\* k-th midnight crossing, k >= 2, is timestamped with day + k.
C9_EveryWrapAdvancesDay ==
  (Reading /\ OneDateContext) => \A p \in 1..NumPoints :
    LET line == FixSeq[p]
        k == Wraps(FixSeq, p)
    IN k >= 2 =>
         PointT(p) = Div1000(DateUTC(year, month, day + k,
                                     parseInt(SubSeq(line, 2, 3)),
                                     parseInt(SubSeq(line, 4, 5)),
                                     parseInt(SubSeq(line, 6, 7))))

\* C6: processing a date header leaves the property map unchanged, whatever
\* text follows the six digits.
C6_DateHeaderKeepsProperties ==
  [][(pc = "loop" /\ i < Len(lines) /\ IsDateHeader(CurrentLine))
       => properties' = properties]_vars

\* C6 witness: a date header that also has the generic header layout has
\* been processed after a PLT header, and PLT is the only key.
C6_Witness ==
  /\ pc = "loop" /\ i >= 2
  /\ IsDateHeader(lines[i]) /\ H_RECORD_RE(lines[i]) # NoMatch
  /\ DOMAIN properties = {"PLT"}

\* The lines processed so far that the generic header path handles.
GenericHeaders ==
  { j \in 1..i : ~IsDateHeader(lines[j]) /\ H_RECORD_RE(lines[j]) # NoMatch }

\* C7: the property map holds, for each key, the trimmed value of the last
\* generic header line with that key, holds no other key, and no value
\* starts or ends with white space.
C7_LastHeaderWins ==
  Reading =>
    /\ DOMAIN properties = { H_RECORD_RE(lines[j])[1] : j \in GenericHeaders }
    /\ \A key \in DOMAIN properties :
         LET last == Max({ j \in GenericHeaders : H_RECORD_RE(lines[j])[1] = key })
             v == properties[key]
         IN /\ v = trim(H_RECORD_RE(lines[last])[2])
            /\ Len(v) > 0 =>
                 /\ SubSeq(v, 1, 1) \notin TrimChars
                 /\ SubSeq(v, Len(v), Len(v)) \notin TrimChars

\* C7 witness: two PLT headers were read and the value of the second,
\* trimmed, is the one held.
C7_Witness ==
  /\ pc = "done" /\ Len(lines) >= 2
  /\ lines[1] = "HFPLTPILOTINCHARGE: " \o VerticalTab \o "John Doe\t"
  /\ lines[2] = "HOPLTPILOT::Jane "
  /\ DOMAIN properties = {"PLT"}
  /\ properties["PLT"] = ":Jane"

\* A line the decoder ignores: one starting with neither B nor H, a B line
\* without the fix layout, an H line of neither header layout.
IgnoredLine(line) ==
  IF Len(line) > 0 /\ SubSeq(line, 1, 1) = "B" THEN ~StartsWithFix(line)
  ELSE IF Len(line) > 0 /\ SubSeq(line, 1, 1) = "H"
    THEN ~IsDateHeader(line) /\ H_RECORD_RE(line) = NoMatch
  ELSE TRUE

NotIgnored(line) == ~IgnoredLine(line)

\* The decode state after the lines ls under the altitude mode: the fold of
\* the loop body over ls.
RECURSIVE Decoded(_, _)
Decoded(ls, mode) ==
  IF Len(ls) = 0
  THEN [year |-> 2000, month |-> 0, day |-> 1, lastDateTime |-> InitialLastDateTime,
        flatCoordinates |-> << >>, properties |-> NoProperties]
  ELSE LET st == Decoded(SubSeq(ls, 1, Len(ls) - 1), mode)
           line == ls[Len(ls)]
           b == B_RECORD_RE(line)
           d == HFDTE_RECORD_RE(line)
           h == H_RECORD_RE(line)
       IN IF b # NoMatch
          THEN LET dateTime == FixDateTime(st.year, st.month, st.day, st.lastDateTime, b)
               IN [st EXCEPT !.flatCoordinates = @ \o FixComponents(mode, b, dateTime),
                             !.lastDateTime = dateTime]
          ELSE IF d # NoMatch
          THEN [st EXCEPT !.day = parseInt(d[1]), !.month = parseInt(d[2]) - 1,
                          !.year = 2000 + parseInt(d[3])]
          ELSE IF h # NoMatch
          THEN [st EXCEPT !.properties = SetProperty(@, h[1], trim(h[2]))]
          ELSE st

\* C8: processing an ignored line changes neither the date context,
\* lastDateTime, the buffer nor the property map and raises no error; and
\* the decode ends in the state the document without its ignored lines
\* leads to.
C8_IgnoredLinesChangeNothing ==
  /\ [][(pc = "loop" /\ i < Len(lines) /\ IgnoredLine(CurrentLine))
          => /\ UNCHANGED <<year, month, day, lastDateTime, flatCoordinates, properties>>
             /\ pc' = "loop" /\ i' = i + 1 /\ result' = result]_vars
  /\ [](pc = "done" /\ op \in ReadOps =>
          /\ result.kind = "return"
          /\ [year |-> year, month |-> month, day |-> day,
              lastDateTime |-> lastDateTime, flatCoordinates |-> flatCoordinates,
              properties |-> properties]
               = Decoded(SelectSeq(lines, NotIgnored), altitudeMode_))

\* C8 witness: a document of a fix between two ignored lines was decoded to
\* a track of one point.
C8_Witness ==
  /\ pc = "done" /\ op \in ReadOps /\ Len(lines) = 3
  /\ IgnoredLine(lines[1]) /\ StartsWithFix(lines[2]) /\ lines[3] = "B"
  /\ NumPoints = 1

\* C10 as stated: a B line that is not exactly the 35-character layout,
\* shorter or longer, appends no point.
C10_OnlyExactLayoutAccepted ==
  [][(pc = "loop" /\ i < Len(lines) /\ charAt(CurrentLine, 0) = "B"
        /\ ~ExactlyFix(CurrentLine))
       => flatCoordinates' = flatCoordinates]_vars

\* C10 amended: a B line appends a point exactly when its first 35
\* characters have the fix layout; a shorter line, a non-digit in a digit
\* field or a hemisphere letter outside {N,S} / {E,W} appends none, and
\* characters after the 35th are not looked at.
C10_LayoutPrefixAccepted ==
  [][(pc = "loop" /\ i < Len(lines) /\ charAt(CurrentLine, 0) = "B")
       => IF StartsWithFix(CurrentLine)
          THEN Len(flatCoordinates') = Len(flatCoordinates) + Stride
          ELSE flatCoordinates' = flatCoordinates]_vars

\* C10 witness: after a B line one character short, which appended nothing,
\* a B line longer than the layout appended the only point.
C10_Witness ==
  /\ pc = "loop" /\ i = 2
  /\ Len(lines[1]) = 34 /\ charAt(lines[1], 0) = "B"
  /\ Len(lines[2]) > 35 /\ StartsWithFix(lines[2])
  /\ NumPoints = 1

\* The z component of the p-th point (when the mode is not NONE).
PointZ(p) == flatCoordinates[(p - 1) * Stride + 3]

\* C11: the z of every point is the first trailing 5-digit field of its fix
\* line under GPS and the second under BAROMETRIC; under NONE no z is
\* emitted and the point is (x, y, t).
C11_AltitudeField ==
  Reading => \A p \in 1..Len(FixSeq) :
    LET line == FixSeq[p] IN
    /\ altitudeMode_ = "gps" => PointZ(p) = parseInt(SubSeq(line, 26, 30))
    /\ altitudeMode_ = "barometric" => PointZ(p) = parseInt(SubSeq(line, 31, 35))
    /\ altitudeMode_ = "none" =>
         /\ Len(flatCoordinates) = 3 * Len(FixSeq)
         /\ flatCoordinates[3 * p - 2] = PointX(p)
         /\ flatCoordinates[3 * p - 1] = PointY(p)
         /\ DOMAIN flatCoordinates[3 * p] = {"day", "sec"}

\* C11 witness: under BAROMETRIC a track of two points with the pressure
\* altitudes 89 and 4321 was returned.
C11_Witness ==
  /\ pc = "done" /\ altitudeMode_ = "barometric" /\ NumPoints = 2
  /\ PointZ(1) = 89 /\ PointZ(2) = 4321

\* The line with the validity letter of a fix replaced by A.
ValidityAsA(line) ==
  IF StartsWithFix(line)
  THEN SubSeq(line, 1, 24) \o "A" \o SubSeq(line, 26, Len(line))
  ELSE line

\* The decode state as a record.
DecodeState ==
  [year |-> year, month |-> month, day |-> day, lastDateTime |-> lastDateTime,
   flatCoordinates |-> flatCoordinates, properties |-> properties]

\* The value a read operation returns from the decode state st.
ReturnedFrom(st) ==
  LET feature == FeatureOf(altitudeMode_, st.flatCoordinates, st.properties) IN
  IF op = "readFeaturesFromText" THEN FeaturesOf(feature) ELSE feature

\* C12: the validity letters do not influence the output: the decode of a
\* document reaches the state, and returns the track and the properties,
\* of the document whose fixes are all marked A, under the same mode.
C12_ValidityIgnored ==
  Reading =>
    LET st == Decoded([j \in 1..i |-> ValidityAsA(lines[j])], altitudeMode_) IN
    /\ DecodeState = st
    /\ NumPoints = Len(FixSeq)
    /\ pc = "done" => result.value = ReturnedFrom(st)

\* C12 witness: a document holding a fix marked A and the same fix marked V
\* was decoded to a track of two points.
C12_Witness ==
  /\ pc = "done" /\ Len(lines) = 2 /\ NumPoints = 2
  /\ SubSeq(lines[1], 25, 25) = "A" /\ SubSeq(lines[2], 25, 25) = "V"
  /\ ValidityAsA(lines[2]) = lines[1]
  /\ PointX(1) = PointX(2) /\ PointY(1) = PointY(2)

\* C13: calls do not interfere: no step writes altitudeMode_; every call,
\* the first or a later one, starts from the date context (2000, 0, 1), the
\* lastDateTime sentinel, an empty buffer and an empty property map; and
\* what a call returns is determined by its document and the mode alone.
C13_CallsIndependent ==
  /\ [][altitudeMode_' = altitudeMode_]_vars
  /\ [][(pc = "idle" /\ pc' = "loop") =>
          /\ year' = 2000 /\ month' = 0 /\ day' = 1
          /\ lastDateTime' = [day |-> -1, ms |-> 86399999]
          /\ Len(flatCoordinates') = 0
          /\ DOMAIN properties' = {}
          /\ i' = 0]_vars
  /\ [](pc = "done" /\ op \in ReadOps =>
          result.value = ReturnedFrom(Decoded(lines, altitudeMode_)))

\* C13 witness: a call under GPS returned a track of one point and a
\* property, after a date header had changed the date context.
C13_Witness ==
  /\ pc = "done" /\ op = "readFeatureFromText" /\ altitudeMode_ = "gps"
  /\ year = 2020 /\ NumPoints = 1 /\ DOMAIN properties = {"PLT"}

\* Date.UTC of the date (y, mo, d) at the time of day of a fix line.
TimeOn(y, mo, d, line) ==
  DateUTC(y, mo, d, parseInt(SubSeq(line, 2, 3)), parseInt(SubSeq(line, 4, 5)),
          parseInt(SubSeq(line, 6, 7)))

\* The number of fix lines among the first j lines.
FixCount(j) == Cardinality({ k \in 1..j : StartsWithFix(lines[k]) })

\* C14: an accepted fix is timestamped with the date context at its time of
\* day when that is not before lastDateTime, and else with exactly one day
\* more; lastDateTime becomes the emitted value; and a fix at 23:59:58
\* followed directly by a fix at 00:00:02, under one date context, gives
\* timestamps 4 seconds apart.
C14_RolloverByOneDay ==
  /\ [][(pc = "loop" /\ i < Len(lines) /\ StartsWithFix(CurrentLine)) =>
          LET candidate == TimeOn(year, month, day, CurrentLine)
              nextDay == TimeOn(year, month, day + 1, CurrentLine)
              emitted == IF TimeLess(candidate, lastDateTime) THEN nextDay ELSE candidate
          IN /\ lastDateTime' = emitted
             /\ flatCoordinates'[Len(flatCoordinates')] =
                  [day |-> emitted.day, sec |-> emitted.ms \div 1000]
             /\ nextDay.day = candidate.day + 1
             /\ nextDay.ms = candidate.ms]_vars
  /\ [](Reading => \A j \in 1..(i - 1) :
          LET p == FixCount(j) IN
          ( /\ StartsWithFix(lines[j]) /\ TimeOfDay(lines[j]) = 86398
            /\ StartsWithFix(lines[j + 1]) /\ TimeOfDay(lines[j + 1]) = 2 )
          => /\ PointT(p + 1).day = PointT(p).day + 1
             /\ PointT(p + 1).sec + 86400 - PointT(p).sec = 4)

\* C15: after every prefix of the document the date context is
\* (2000 + YY, MM - 1, DD) of the last date header processed, whatever DD
\* and MM are, or (2000, 0, 1) when there is none; no fix changes it, not
\* even one that takes the rollover branch.
C15_DateContextFromLastHeader ==
  Reading =>
    LET headers == Processed(IsDateHeader) IN
    IF headers = {}
    THEN year = 2000 /\ month = 0 /\ day = 1
    ELSE LET line == lines[Max(headers)] IN
         /\ day = parseInt(SubSeq(line, 6, 7))
         /\ month = parseInt(SubSeq(line, 8, 9)) - 1
         /\ year = 2000 + parseInt(SubSeq(line, 10, 11))

\* C15 witness: after the date header 00-00-00 a second fix took the
\* rollover branch, and the date context is still (2000, -1, 0).
C15_Witness ==
  /\ pc = "loop" /\ i = 3 /\ lines[1] = "HFDTE000000"
  /\ year = 2000 /\ month = -1 /\ day = 0
  /\ NumPoints = 2
  /\ PointT(2).day = PointT(1).day + 1
  /\ TimeOfDay(lines[3]) < TimeOfDay(lines[2])

\* The signed latitude and longitude a fix line denotes, in 1/60000 degree.
SignedLat(line) == IF SubSeq(line, 15, 15) = "S" THEN -LatField(line) ELSE LatField(line)
SignedLon(line) == IF SubSeq(line, 24, 24) = "W" THEN -LonField(line) ELSE LonField(line)

\* C16: the track has one point per fix line processed, in document order:
\* the p-th point holds the longitude, the latitude, under a mode other than
\* NONE an altitude, and the time of the p-th fix line, in that order;
\* other lines contribute nothing.
C16_OnePointPerFixInOrder ==
  Reading =>
    /\ Len(flatCoordinates) = Stride * Len(FixSeq)
    /\ \A p \in 1..Len(FixSeq) :
         LET line == FixSeq[p]
             base == (p - 1) * Stride
         IN /\ flatCoordinates[base + 1] = SignedLon(line)
            /\ flatCoordinates[base + 2] = SignedLat(line)
            /\ Stride = 4 =>
                 flatCoordinates[base + 3] \in
                   {0, parseInt(SubSeq(line, 26, 30)), parseInt(SubSeq(line, 31, 35))}
            /\ flatCoordinates[base + Stride].sec = TimeOfDay(line) % 86400

\* C16 witness: of three lines, the first and the third are fixes at
\* different places, and the track holds their two points in that order.
C16_Witness ==
  /\ pc = "done" /\ Len(lines) = 3 /\ altitudeMode_ = "gps"
  /\ StartsWithFix(lines[1]) /\ ~StartsWithFix(lines[2]) /\ StartsWithFix(lines[3])
  /\ NumPoints = 2
  /\ PointX(1) = 60000 /\ PointY(1) = 3000000
  /\ PointX(2) = -(179 * 60000 + 59999) /\ PointY(2) = -(45 * 60000 + 30000)

\* C17: the first fix of a document is never moved to the next day: its
\* timestamp is Date.UTC of the date context at its time of day, for every
\* date context a date header can set (DD, MM or YY of 00 included) and
\* every time of day, because no such instant is before the initial
\* lastDateTime.
C17_FirstFixNeverCorrected ==
  Reading /\ Len(FixSeq) >= 1 =>
    LET first == Min(Processed(StartsWithFix))
        headers == { j \in Processed(IsDateHeader) : j < first }
        line == lines[first]
        candidate ==
          IF headers = {} THEN TimeOn(2000, 0, 1, line)
          ELSE LET h == lines[Max(headers)] IN
               TimeOn(2000 + parseInt(SubSeq(h, 10, 11)), parseInt(SubSeq(h, 8, 9)) - 1,
                      parseInt(SubSeq(h, 6, 7)), line)
    IN /\ ~TimeLess(candidate, InitialLastDateTime)
       /\ PointT(1) = Div1000(candidate)

\* C17 witness: after the date header 00-00-00 the first fix, at 00:00:00,
\* was timestamped 30 November 1999, before the default date context.
C17_Witness ==
  /\ pc = "done" /\ op \in ReadOps /\ Len(lines) >= 2
  /\ lines[1] = "HFDTE000000"
  /\ NumPoints >= 1 /\ TimeOfDay(lines[2]) = 0
  /\ PointT(1) = [day |-> 10925, sec |-> 0]

\* C18: a read operation is a single pass: while it runs the document is
\* fixed, each step takes the next line in document order (line i + 1, with
\* i going up by one) whatever the line decodes to, the operation returns
\* exactly when every line has been taken, and it always does return.
C18_SinglePassTerminates ==
  /\ [][pc = "loop" =>
          \/ /\ i < Len(lines) /\ i' = i + 1 /\ lines' = lines /\ pc' = "loop"
          \/ /\ i = Len(lines) /\ i' = i /\ lines' = lines /\ pc' = "done"]_vars
  /\ [](pc = "loop" => i \in 0..Len(lines))
  /\ (pc = "loop" ~> pc = "done")

\* C18 witness: a document of three lines of three kinds was read to its
\* end and the operation returned.
C18_Witness ==
  /\ pc = "done" /\ op \in ReadOps /\ Len(lines) = 3 /\ i = 3
  /\ StartsWithFix(lines[1]) /\ IsDateHeader(lines[2]) /\ lines[3] = "XGARBAGE"

\* C19: under an altitude mode that is none of "none", "gps" and
\* "barometric" every fix processed gives a point of four components whose
\* z is 0, whatever its altitude fields hold, and the track returned is
\* tagged XYZM.
C19_UnknownModeZeroZ ==
  (Reading /\ altitudeMode_ \notin {"none", "gps", "barometric"}) =>
    /\ Len(flatCoordinates) = 4 * Len(FixSeq)
    /\ \A p \in 1..Len(FixSeq) :
         /\ flatCoordinates[4 * p - 1] = 0
         /\ flatCoordinates[4 * p - 3] = SignedLon(FixSeq[p])
         /\ flatCoordinates[4 * p - 2] = SignedLat(FixSeq[p])
         /\ DOMAIN flatCoordinates[4 * p] = {"day", "sec"}
    /\ (pc = "done" /\ Len(FixSeq) >= 1) =>
         ResultFeature.geometry.layout = GeometryLayout.XYZM

\* C19 witness: under the mode "other" a fix with the altitudes 4500 and
\* 4321 gave a point with z 0 in a track tagged XYZM.
C19_Witness ==
  /\ pc = "done" /\ op = "readFeatureFromText" /\ altitudeMode_ = "other"
  /\ NumPoints = 1
  /\ parseInt(SubSeq(FixSeq[1], 26, 30)) = 4500
  /\ parseInt(SubSeq(FixSeq[1], 31, 35)) = 4321
  /\ PointZ(1) = 0
  /\ result.value.geometry.layout = "XYZM"
  /\ Len(result.value.geometry.flatCoordinates) = 4

====
